---- MODULE Spec2Model ----
(***************************************************************************)
(* Credential and signature caching of wechat-jssdk: the JSSDK class in    *)
(* its TypeScript form (src/unnamed/part_001) and in its earlier           *)
(* JavaScript form (src/unnamed/part_002, the one that carries the manual  *)
(* refresh counter), over a store that keeps one global token record and   *)
(* one signature record per normalized URL.                                *)
(*                                                                         *)
(* Every asynchronous call is a process slot; one action is one            *)
(* synchronous run of JavaScript between two awaits (a call's synchronous  *)
(* prefix, or the continuation run when a store or upstream answer         *)
(* arrives).                                                               *)
(***************************************************************************)
EXTENDS Integers, Sequences, FiniteSets, TLC

VARIABLES
  now,            \* Date.now(), in milliseconds since construction
  nextClear,      \* when the setInterval of the constructor fires next
  refreshedTimes, \* JSSDK.refreshedTimes
  globalToken,    \* the store's global token record
  signatures,     \* the store's signature records, by normalized url
  tokenSeq,       \* access tokens issued by upstream so far
  nonceSeq,       \* nonce strings drawn so far
  proc,           \* the calls in flight
  hist,           \* observation: calls started, counted refreshes of the window
  impl,           \* which JSSDK class the process runs: "ts" or "js"
  norm,           \* the inputs and results of the normalizeUrl runs
  oauth,          \* the OAuth class: its store records and its call in flight
  verify          \* the query of the /api/wechat route and its verification

vars == <<now, nextClear, refreshedTimes, globalToken, signatures,
          tokenSeq, nonceSeq, proc, hist, impl, norm, oauth, verify>>

----------------------------------------------------------------------------
(* Bounds of the model *)

NProcs == 2
MaxCalls == 2
MaxTicks == 2
MaxSeqCalls == 4
MaxSeqTicks == 3
MaxRateCalls == 11
MaxRateTicks == 2
MaxRaceCalls == 7
MaxUrlLen == 5
MaxOCalls == 2
MaxOTicks == 2
MaxAgeCalls == 3
MaxAgeTicks == 2
MaxAutoCalls == 7
MaxAutoTicks == 2

(* Program constants *)

\* part_002:15  const REFRESH_INTERVAL = 1000 * 119 * 60
REFRESH_INTERVAL == 1000 * 119 * 60
\* part_002:41  setInterval(..., 1000 * 7200)
ClearCountInterval == 1000 * 7200
\* part_002:173 this.refreshedTimes > 5
MaxRefreshedTimes == 5
\* part_002:14  token is only valid within 2 hours
TokenLifetime == 7200000

----------------------------------------------------------------------------
(* Strings are sequences of one-character strings. *)

Undefined == [f \in {} |-> 0]
Exists(r) == DOMAIN r # {}

\* String.prototype.indexOf: the least 0-based index at which pat occurs, -1
\* when it does not; the empty pattern occurs at 0.
IndexOf(s, pat) ==
  LET hits == {i \in 0..(Len(s) - Len(pat)) :
                 SubSeq(s, i + 1, i + Len(pat)) = pat}
  IN IF hits = {} THEN -1 ELSE CHOOSE i \in hits : \A j \in hits : i <= j

\* String.prototype.substring(0, k)
Substring0(s, k) == SubSeq(s, 1, k)

HasHash(url) == \E i \in 1..Len(url) : url[i] = "#"

\* url.parse(url).hash: the url from its first '#' on; null without a '#'.
\* The result is only read where HasHash(url).
ParsedHash(url) == SubSeq(url, IndexOf(url, <<"#">>) + 1, Len(url))

NullString == <<"n", "u", "l", "l">>

\* part_001:91-96   indexOf(temp.hash || '')
normalizeUrl(url) ==
  LET hashIndex == IndexOf(url, IF HasHash(url) THEN ParsedHash(url) ELSE <<>>)
  IN IF hashIndex > 0 THEN Substring0(url, hashIndex) ELSE url

\* part_002:87-92   indexOf(temp.hash): indexOf(null) searches for "null"
normalizeUrlJs(url) ==
  LET hashIndex == IndexOf(url, IF HasHash(url) THEN ParsedHash(url) ELSE NullString)
  IN IF hashIndex > 0 THEN Substring0(url, hashIndex) ELSE url

NormalizeBy(ver, url) == IF ver = "ts" THEN normalizeUrl(url) ELSE normalizeUrlJs(url)

Versions == {"ts", "js"}

----------------------------------------------------------------------------
(* The normalizeUrl runs: two urls that differ only in their fragment. *)

BaseChars == {"h", "n", "u", "l"}

RECURSIVE StringsOfLen(_)
StringsOfLen(n) ==
  IF n = 0 THEN {<<>>}
  ELSE {Append(s, c) : s \in StringsOfLen(n - 1), c \in BaseChars}

Bases == UNION {StringsOfLen(n) : n \in 0..MaxUrlLen}

\* No fragment, the empty fragment, and two fragments.
Fragments == {<<>>, <<"#">>, <<"#", "h">>, <<"#", "n", "#">>}

\* The url without its fragment: the part before the first '#'.
StripFragment(url) ==
  IF HasHash(url) THEN SubSeq(url, 1, IndexOf(url, <<"#">>)) ELSE url

NormIdle == [a |-> <<>>, b |-> <<>>, done |-> FALSE, ka |-> <<>>, kb |-> <<>>]

NormInit ==
  norm \in {[a |-> base \o f, b |-> base \o g, done |-> FALSE,
             ka |-> <<>>, kb |-> <<>>] :
              base \in Bases, f \in Fragments, g \in Fragments}

\* The cache keys of the two urls, as getSignature computes them
\* (part_001:266, part_002:283).
Normalize ==
  /\ ~norm.done
  /\ norm' = [norm EXCEPT !.done = TRUE, !.ka = NormalizeBy(impl, norm.a),
                          !.kb = NormalizeBy(impl, norm.b)]
  /\ UNCHANGED <<now, nextClear, refreshedTimes, globalToken, signatures,
                 tokenSeq, nonceSeq, proc, hist, impl, oauth, verify>>

----------------------------------------------------------------------------
(* Records.  An absent record, and JavaScript's undefined, is the function  *)
(* with no field; a missing or empty string field of the token record is 0. *)

AppId == "wxappid"
EmptyString == ""

Urls == {<<"h">>, <<"h", "#", "n">>}
UrlKeys == {NormalizeBy(v, u) : v \in Versions, u \in Urls}

\* Object.assign(old, info): the fields of info replace or extend those of old.
Merge(old, info) ==
  [f \in (DOMAIN old) \cup (DOMAIN info) |->
     IF f \in DOMAIN info THEN info[f] ELSE old[f]]

\* o[f], 0 standing for undefined
Field(o, f) == IF f \in DOMAIN o THEN o[f] ELSE 0

\* delete info[f] for the fields f of S
Without(info, S) == [f \in (DOMAIN info) \ S |-> info[f]]

\* The expiry test taken at the interval itself.
isTokenExpiredAtInterval(modifyDate, t) == t - modifyDate >= REFRESH_INTERVAL

\* part_002:50-52   Date.now() - new Date(modifyDate).getTime() > REFRESH_INTERVAL
isTokenExpired(modifyDate, t) == t - modifyDate > REFRESH_INTERVAL

\* A filter that lets the ticket through.
filterSignatureLeaking(o) ==
  IF ~Exists(o) THEN Undefined
  ELSE [appId |-> AppId, timestamp |-> o.timestamp, nonceStr |-> o.nonceStr,
        signature |-> o.signature, url |-> o.url,
        jsapi_ticket |-> o.jsapi_ticket]

\* part_001:70-83
filterSignature(o) ==
  IF ~Exists(o) THEN Undefined
  ELSE [appId |-> AppId, timestamp |-> o.timestamp, nonceStr |-> o.nonceStr,
        signature |-> o.signature, url |-> o.url]

\* part_002:69-79
signatureResult(reply) ==
  IF ~Exists(reply) THEN Undefined
  ELSE [timestamp |-> reply.timestamp, nonceStr |-> reply.nonceStr,
        signature |-> reply.signature, url |-> reply.url]

FilterBy(ver, o) == IF ver = "ts" THEN filterSignature(o) ELSE signatureResult(o)

\* utils.paramsToString: the pairs key=value, keys sorted and lower-cased.
SortedKeys == <<"accessToken", "jsapi_ticket", "nonceStr", "signature",
                "timestamp", "url">>
LowerCase(k) ==
  IF k = "accessToken" THEN "accesstoken"
  ELSE IF k = "nonceStr" THEN "noncestr" ELSE k
paramsToString(args) ==
  LET keys == SelectSeq(SortedKeys, LAMBDA k : k \in DOMAIN args)
  IN [i \in 1..Len(keys) |-> <<LowerCase(keys[i]), args[keys[i]]>>]

\* utils.genSHA1, taken as an injective function of its input
genSHA1(str) == [sha1 |-> str]

\* utils.timestamp(): the Unix time in seconds
Timestamp(t) == t \div 1000

\* part_001:106-123, with the nonce drawn and the clock read passed in
generateSignature(url, accessToken, ticket, nonce, t) ==
  LET ret == [jsapi_ticket |-> ticket, nonceStr |-> nonce,
              timestamp |-> Timestamp(t), url |-> normalizeUrl(url),
              signature |-> EmptyString, accessToken |-> EmptyString]
  IN [ret EXCEPT !.signature = genSHA1(paramsToString(ret)),
                 !.accessToken = accessToken]

\* part_002:222-233
genSignature(ticket, url, accessToken, nonce, t) ==
  LET ret == [jsapi_ticket |-> ticket, nonceStr |-> nonce,
              timestamp |-> Timestamp(t), url |-> normalizeUrlJs(url)]
  IN Merge(ret, [signature |-> genSHA1(paramsToString(ret)),
                 accessToken |-> accessToken])

GenerateBy(ver, url, data, nonce, t) ==
  IF ver = "ts"
  THEN generateSignature(url, Field(data, "accessToken"),
                         Field(data, "jsapi_ticket"), nonce, t)
  ELSE genSignature(Field(data, "jsapi_ticket"), url,
                    Field(data, "accessToken"), nonce, t)

\* The partial record without the ticket.
TokenInfoWithoutTicket(token, ticket, t) ==
  Merge([modifyDate |-> t],
        IF token # 0 THEN [accessToken |-> token] ELSE Undefined)

\* part_002:157-162 (part_001:180-188): the partial record handed to the store
TokenInfo(token, ticket, t) ==
  Merge(Merge([modifyDate |-> t],
              IF token # 0 THEN [accessToken |-> token] ELSE Undefined),
        IF ticket # 0 THEN [jsapi_ticket |-> ticket] ELSE Undefined)

\* The ticket upstream issues for an access token.
TicketOf(token) == 1000 + token

\* The refresh test that refreshes whatever the store holds.
NeedsRefreshAlways(gt, t) == TRUE

\* The refresh test without its expiry operand.
NeedsRefreshIgnoringExpiry(gt, t) ==
  \/ ~Exists(gt)
  \/ "accessToken" \notin DOMAIN gt
  \/ gt.accessToken = 0

\* part_002:206  !globalToken || !globalToken.accessToken || isTokenExpired(...)
NeedsRefresh(gt, t) ==
  \/ ~Exists(gt)
  \/ "accessToken" \notin DOMAIN gt
  \/ gt.accessToken = 0
  \/ isTokenExpired(gt.modifyDate, t)

\* The cache test without its forceNewSignature operand.
ServedFromCacheIgnoringForce(force, signature, t) ==
  /\ Exists(signature)
  /\ ~isTokenExpired(signature.modifyDate, t)

\* part_001:268-272 (part_002:286)
\*   !forceNewSignature && signature && !isTokenExpired(signature.modifyDate)
ServedFromCache(force, signature, t) ==
  /\ ~force
  /\ Exists(signature)
  /\ ~isTokenExpired(signature.modifyDate, t)

\* The counter incremented by forced refreshes too.
CountRefreshForced(force, times) == times + 1

\* The counter left as it is.
CountRefreshNever(force, times) == times

\* part_002:172   force || this.refreshedTimes++
CountRefresh(force, times) == IF force THEN times ELSE times + 1

\* The threshold taken one higher.
RefreshRejectedLate(force, times) == ~force /\ times > MaxRefreshedTimes + 1

\* part_002:173   !force && this.refreshedTimes > 5   (the request is rejected)
RefreshRejected(force, times) == ~force /\ times > MaxRefreshedTimes

----------------------------------------------------------------------------
(* The calls in flight *)

Procs == 1..NProcs

IdleProc ==
  [op |-> "idle", pc |-> "idle", url |-> <<>>, force |-> FALSE,
   accessToken |-> 0, info |-> Undefined, sig |-> Undefined,
   existing |-> FALSE, result |-> Undefined, err |-> "",
   \* observation of the call, read by the properties only
   nTok |-> 0, nTick |-> 0, nWrite |-> 0, tokOk |-> FALSE, tickFor |-> 0,
   seen |-> Undefined, seenAt |-> 0, path |-> "", seq |-> 0, nonce0 |-> 0,
   gt0 |-> Undefined, t0 |-> 0, saving |-> Undefined, ticketAt |-> 0]

HistInit == [calls |-> 0, ticks |-> 0, manual |-> 0, admitted |-> 0,
             clears |-> 0, saved |-> [k \in UrlKeys |-> Undefined],
             ticketAt |-> [k \in UrlKeys |-> 0]]

MainInit ==
  /\ now = 0
  /\ nextClear = ClearCountInterval
  /\ refreshedTimes = 0
  /\ globalToken = Undefined
  /\ signatures = [k \in UrlKeys |-> Undefined]
  /\ tokenSeq = 0
  /\ nonceSeq = 0
  /\ proc = [p \in Procs |-> IdleProc]
  /\ hist = HistInit

NewCall(op) ==
  [IdleProc EXCEPT !.op = op, !.nonce0 = nonceSeq, !.gt0 = globalToken,
                   !.t0 = now]

Counted == hist' = [hist EXCEPT !.calls = @ + 1]

\* The call resolves with value v.
Resolved(pr, v) == [pr EXCEPT !.pc = "done", !.result = v]
\* The call rejects with error e.
Rejected(pr, e) == [pr EXCEPT !.pc = "done", !.err = e]

----------------------------------------------------------------------------
(* part_002:170-177, the synchronous prefix of getNewTokenAndTicket(force): *)
(* the counter, the threshold, and the access token request sent.           *)
EnterRefresh(p, pr, force) ==
  LET times == CountRefresh(force, refreshedTimes) IN
  /\ refreshedTimes' = times
  /\ IF RefreshRejected(force, times)
     THEN proc' = [proc EXCEPT ![p] = Rejected(pr, "ratelimit")]
     ELSE proc' = [proc EXCEPT ![p] =
                     [pr EXCEPT !.pc = "tok_wait", !.nTok = @ + 1]]

\* part_002:170  a manual refresh: getNewTokenAndTicket() called without force
GetNewTokenAndTicket(p) ==
  /\ impl = "js"
  /\ proc[p].pc = "idle"
  /\ EnterRefresh(p, [NewCall("getNewTokenAndTicket")
                        EXCEPT !.seq = hist.manual + 1], FALSE)
  /\ hist' = [hist EXCEPT !.calls = @ + 1, !.manual = @ + 1,
                !.admitted = IF proc'[p].pc = "tok_wait" THEN @ + 1 ELSE @]
  /\ UNCHANGED <<now, nextClear, globalToken, signatures, tokenSeq, nonceSeq, impl, norm, oauth, verify>>

\* part_002:203-204  prepareNewSignature() called: the store is asked for the
\* global token (the store's prepareGlobalToken of part_001:285)
PrepareGlobalToken(p) ==
  /\ proc[p].pc = "idle"
  /\ proc' = [proc EXCEPT ![p] =
                [NewCall("prepareGlobalToken") EXCEPT !.pc = "gt_read"]]
  /\ Counted
  /\ UNCHANGED <<now, nextClear, refreshedTimes, globalToken, signatures,
                 tokenSeq, nonceSeq, impl, norm, oauth, verify>>

\* part_001:196-199  getGlobalTokenAndTicket() called
GetGlobalTokenAndTicket(p) ==
  /\ impl = "ts"
  /\ proc[p].pc = "idle"
  /\ proc' = [proc EXCEPT ![p] =
                [NewCall("getGlobalTokenAndTicket")
                   EXCEPT !.pc = "gt_read", !.seq = hist.manual + 1]]
  /\ hist' = [hist EXCEPT !.calls = @ + 1, !.manual = @ + 1]
  /\ UNCHANGED <<now, nextClear, refreshedTimes, globalToken, signatures,
                 tokenSeq, nonceSeq, impl, norm, oauth, verify>>

\* part_001:262-267 (part_002:282-284)  getSignature(url, forceNewSignature)
GetSignature(p, url, force) ==
  /\ proc[p].pc = "idle"
  /\ proc' = [proc EXCEPT ![p] =
                [NewCall("getSignature")
                   EXCEPT !.pc = "sig_read", !.url = NormalizeBy(impl, url),
                          !.force = force]]
  /\ Counted
  /\ UNCHANGED <<now, nextClear, refreshedTimes, globalToken, signatures,
                 tokenSeq, nonceSeq, impl, norm, oauth, verify>>

\* part_001:301-303 (part_002:316-318)  getCachedSignature(url)
GetCachedSignature(p, url) ==
  /\ proc[p].pc = "idle"
  /\ proc' = [proc EXCEPT ![p] =
                [NewCall("getCachedSignature")
                   EXCEPT !.pc = "cached_read", !.url = NormalizeBy(impl, url)]]
  /\ Counted
  /\ UNCHANGED <<now, nextClear, refreshedTimes, globalToken, signatures,
                 tokenSeq, nonceSeq, impl, norm, oauth, verify>>

----------------------------------------------------------------------------
(* Continuations *)

\* What follows the global token record `data` once prepared:
\*   prepareNewSignature resolves with it (part_002:211, 190);
\*   createSignature generates the signature and starts saveSignature
\*     (part_001:286-292, 220-223; part_002:303-305, 241-244);
\*   getGlobalTokenAndTicket asks for a ticket (part_001:200-201).
AfterPrepare(p, pr, data) ==
  CASE pr.op = "prepareGlobalToken" ->
         /\ proc' = [proc EXCEPT ![p] = Resolved(pr, data)]
         /\ UNCHANGED nonceSeq
    [] pr.op = "getGlobalTokenAndTicket" ->
         /\ proc' = [proc EXCEPT ![p] =
              [pr EXCEPT !.pc = "tick2_wait",
                         !.accessToken = Field(data, "accessToken"),
                         !.nTick = @ + 1]]
         /\ UNCHANGED nonceSeq
    [] OTHER ->
         LET ret == GenerateBy(impl, pr.url, data, nonceSeq + 1, now)
             signature == Merge(ret, [signatureName |-> ret.url,
                                      createDate |-> now, modifyDate |-> now])
         IN /\ nonceSeq' = nonceSeq + 1
            /\ proc' = [proc EXCEPT ![p] =
                 [pr EXCEPT !.pc = "sig_exist", !.sig = signature,
                            !.ticketAt = data.modifyDate]]

\* part_001:267-276 (part_002:285-290)  the cached signature arrives
SigRead(p) ==
  LET pr == proc[p]
      signature == signatures[pr.url]
      obs == [pr EXCEPT !.seen = signature, !.seenAt = now]
  IN
  /\ pr.pc = "sig_read"
  /\ IF ServedFromCache(pr.force, signature, now)
     THEN proc' = [proc EXCEPT ![p] =
            Resolved([obs EXCEPT !.path = "cache"], FilterBy(impl, signature))]
     ELSE proc' = [proc EXCEPT ![p] =
            [obs EXCEPT !.pc = "gt_read", !.path = "create"]]
  /\ UNCHANGED <<now, nextClear, refreshedTimes, globalToken, signatures,
                 tokenSeq, nonceSeq, hist, impl, norm, oauth, verify>>

\* part_002:205-212  the global token record arrives
GtRead(p) ==
  LET pr == proc[p]
      obs == IF pr.op = "getSignature" THEN pr
             ELSE [pr EXCEPT !.seen = globalToken, !.seenAt = now]
  IN
  /\ pr.pc = "gt_read"
  /\ IF NeedsRefresh(globalToken, now)
     THEN /\ EnterRefresh(p, [obs EXCEPT !.path = pr.path \o "+refresh"], TRUE)
          /\ UNCHANGED nonceSeq
     ELSE /\ AfterPrepare(p, [obs EXCEPT !.path = pr.path \o "+cached"], globalToken)
          /\ UNCHANGED refreshedTimes
  /\ UNCHANGED <<now, nextClear, globalToken, signatures, tokenSeq, hist, impl, norm, oauth, verify>>

\* A token answer after which a failed request is sent again.
TokenResponseRetrying(p, ok) ==
  LET pr == proc[p] IN
  /\ pr.pc = "tok_wait"
  /\ IF ok
     THEN /\ tokenSeq' = tokenSeq + 1
          /\ proc' = [proc EXCEPT ![p] =
               [pr EXCEPT !.pc = "tick_wait", !.accessToken = tokenSeq + 1,
                          !.tokOk = TRUE, !.nTick = @ + 1,
                          !.tickFor = tokenSeq + 1]]
     ELSE /\ proc' = [proc EXCEPT ![p] =
               IF pr.nTok < 2 THEN [pr EXCEPT !.nTok = @ + 1]
               ELSE Rejected(pr, "token")]
          /\ UNCHANGED tokenSeq
  /\ UNCHANGED <<now, nextClear, refreshedTimes, globalToken, signatures,
                 nonceSeq, hist, impl, norm, oauth, verify>>

\* part_002:177-188  the access token request is answered
TokenResponse(p, ok) ==
  LET pr == proc[p] IN
  /\ pr.pc = "tok_wait"
  /\ IF ok
     THEN /\ tokenSeq' = tokenSeq + 1
          /\ proc' = [proc EXCEPT ![p] =
               [pr EXCEPT !.pc = "tick_wait", !.accessToken = tokenSeq + 1,
                          !.tokOk = TRUE, !.nTick = @ + 1,
                          !.tickFor = tokenSeq + 1]]
     ELSE /\ proc' = [proc EXCEPT ![p] = Rejected(pr, "token")]
          /\ UNCHANGED tokenSeq
  /\ UNCHANGED <<now, nextClear, refreshedTimes, globalToken, signatures,
                 nonceSeq, hist, impl, norm, oauth, verify>>

\* A ticket answer that, on failure, persists the access token alone.
TicketResponsePersisting(p, ok) ==
  LET pr == proc[p] IN
  /\ pr.pc = "tick_wait"
  /\ IF ok
     THEN /\ proc' = [proc EXCEPT ![p] =
               [pr EXCEPT !.pc = "gt_write",
                          !.info = TokenInfo(pr.accessToken, TicketOf(pr.tickFor), now)]]
          /\ UNCHANGED globalToken
     ELSE /\ globalToken' = Merge(globalToken, TokenInfo(pr.accessToken, 0, now))
          /\ proc' = [proc EXCEPT ![p] = Rejected([pr EXCEPT !.nWrite = @ + 1], "ticket")]
  /\ UNCHANGED <<now, nextClear, refreshedTimes, signatures,
                 tokenSeq, nonceSeq, hist, impl, norm, oauth, verify>>

\* part_002:189-196  the ticket request is answered
TicketResponse(p, ok) ==
  LET pr == proc[p] IN
  /\ pr.pc = "tick_wait"
  /\ IF ok
     THEN proc' = [proc EXCEPT ![p] =
            [pr EXCEPT !.pc = "gt_write",
                       !.info = TokenInfo(pr.accessToken, TicketOf(pr.tickFor), now)]]
     ELSE proc' = [proc EXCEPT ![p] = Rejected(pr, "ticket")]
  /\ UNCHANGED <<now, nextClear, refreshedTimes, globalToken, signatures,
                 tokenSeq, nonceSeq, hist, impl, norm, oauth, verify>>

\* The store's updateGlobalTokenInfo(info) merges, persists and answers
\* (part_002:161, 190).
GtWrite(p) ==
  LET pr == proc[p]
      merged == Merge(globalToken, pr.info)
      wrote == [pr EXCEPT !.nWrite = @ + 1, !.info = Undefined]
  IN
  /\ pr.pc = "gt_write"
  /\ globalToken' = merged
  /\ IF pr.op = "getNewTokenAndTicket"
     THEN /\ proc' = [proc EXCEPT ![p] = Resolved(wrote, merged)]
          /\ UNCHANGED nonceSeq
     ELSE AfterPrepare(p, wrote, merged)
  /\ UNCHANGED <<now, nextClear, refreshedTimes, signatures, tokenSeq, hist, impl, norm, oauth, verify>>

\* part_001:201-209  the ticket request of getGlobalTokenAndTicket is answered
Ticket2Response(p, ok) ==
  LET pr == proc[p] IN
  /\ pr.pc = "tick2_wait"
  /\ IF ok
     THEN proc' = [proc EXCEPT ![p] =
            [pr EXCEPT !.pc = "gt_write2",
                       !.info = TokenInfo(pr.accessToken,
                                          TicketOf(pr.accessToken), now)]]
     ELSE proc' = [proc EXCEPT ![p] = Rejected(pr, "ticket")]
  /\ UNCHANGED <<now, nextClear, refreshedTimes, globalToken, signatures,
                 tokenSeq, nonceSeq, hist, impl, norm, oauth, verify>>

\* part_001:187, 202-205  the store's updateGlobalToken(info) answers
GtWrite2(p) ==
  LET pr == proc[p]
      merged == Merge(globalToken, pr.info)
  IN
  /\ pr.pc = "gt_write2"
  /\ globalToken' = merged
  /\ proc' = [proc EXCEPT ![p] =
       Resolved([pr EXCEPT !.nWrite = @ + 1, !.info = Undefined], merged)]
  /\ UNCHANGED <<now, nextClear, refreshedTimes, signatures, tokenSeq,
                 nonceSeq, hist, impl, norm, oauth, verify>>

\* An update that also drops the signature.
UpdateInfoTsWithoutSignature(signature, t) ==
  Without([signature EXCEPT !.modifyDate = t],
          {"createDate", "signatureName", "signature"})

\* part_001:243-251  updateSignature: what is handed to the store
UpdateInfoTs(signature, t) ==
  Without([signature EXCEPT !.modifyDate = t], {"createDate", "signatureName"})

\* An update that also drops the signature.
UpdateInfoJsWithoutSignature(signature, t) ==
  Without([signature EXCEPT !.modifyDate = t],
          {"url", "signatureName", "signature"})

\* part_002:264-269  updateSignatureByUrl: what is handed to the store
UpdateInfoJs(signature, t) ==
  Without([signature EXCEPT !.modifyDate = t], {"url", "signatureName"})

\* part_001:223-232 (part_002:245-250)  isSignatureExisting(url) is answered
SigExist(p) ==
  LET pr == proc[p]
      existing == Exists(signatures[pr.sig.url])
  IN
  /\ pr.pc = "sig_exist"
  /\ proc' = [proc EXCEPT ![p] =
       [pr EXCEPT !.pc = "sig_write", !.existing = existing,
                  !.saving = pr.sig,
                  !.sig = IF ~existing THEN pr.sig
                          ELSE IF impl = "ts" THEN UpdateInfoTs(pr.sig, now)
                          ELSE UpdateInfoJs(pr.sig, now)]]
  /\ UNCHANGED <<now, nextClear, refreshedTimes, globalToken, signatures,
                 tokenSeq, nonceSeq, hist, impl, norm, oauth, verify>>

\* The store's updateSignature(url, info) merges into the record of url and
\* its saveSignature(name, signature) sets the record of name; either answers
\* with the stored record (part_001:227-234, 292-293; part_002:250-255, 307).
SigWrite(p) ==
  LET pr == proc[p]
      key == IF pr.existing THEN NormalizeBy(impl, pr.url) ELSE pr.sig.signatureName
      stored == IF pr.existing THEN Merge(signatures[key], pr.sig) ELSE pr.sig
  IN
  /\ pr.pc = "sig_write"
  /\ signatures' = [signatures EXCEPT ![key] = stored]
  /\ proc' = [proc EXCEPT ![p] =
       Resolved([pr EXCEPT !.nWrite = @ + 1, !.sig = Undefined,
                           !.saving = Undefined, !.ticketAt = 0],
                FilterBy(impl, stored))]
  /\ hist' = [hist EXCEPT !.saved[key] = pr.saving,
                          !.ticketAt[key] = pr.ticketAt]
  /\ UNCHANGED <<now, nextClear, refreshedTimes, globalToken, tokenSeq,
                 nonceSeq, impl, norm, oauth, verify>>

\* part_001:303-304 (part_002:318-321)
CachedRead(p) ==
  LET pr == proc[p] IN
  /\ pr.pc = "cached_read"
  /\ proc' = [proc EXCEPT ![p] =
       Resolved([pr EXCEPT !.seen = signatures[pr.url], !.seenAt = now,
                           !.path = "cache"],
                FilterBy(impl, signatures[pr.url]))]
  /\ UNCHANGED <<now, nextClear, refreshedTimes, globalToken, signatures,
                 tokenSeq, nonceSeq, hist, impl, norm, oauth, verify>>

\* The caller has taken the outcome; the slot is free again.
Return(p) ==
  /\ proc[p].pc = "done"
  /\ proc' = [proc EXCEPT ![p] = IdleProc]
  /\ UNCHANGED <<now, nextClear, refreshedTimes, globalToken, signatures,
                 tokenSeq, nonceSeq, hist, impl, norm, oauth, verify>>

----------------------------------------------------------------------------
(* Time *)

\* The clock is read at the instants at which something falls due: every
\* two-hour mark (the interval timer) and REFRESH_INTERVAL after each mark.
NextInstant(t) ==
  LET mark == ((t \div ClearCountInterval) + 1) * ClearCountInterval
  IN IF t + REFRESH_INTERVAL < mark THEN t + REFRESH_INTERVAL ELSE mark

\* The clock advances; where the interval timer runs, not past its firing.
Tick(max) ==
  /\ hist.ticks < max
  /\ impl = "js" => now < nextClear
  /\ now' = NextInstant(now)
  /\ hist' = [hist EXCEPT !.ticks = @ + 1]
  /\ UNCHANGED <<nextClear, refreshedTimes, globalToken, signatures, tokenSeq,
                 nonceSeq, proc, impl, norm, oauth, verify>>

\* The clock advances by REFRESH_INTERVAL; where the interval timer runs, it
\* has fired before.
TickInterval(max) ==
  /\ hist.ticks < max
  /\ impl = "js" => now < nextClear
  /\ now' = now + REFRESH_INTERVAL
  /\ hist' = [hist EXCEPT !.ticks = @ + 1]
  /\ UNCHANGED <<nextClear, refreshedTimes, globalToken, signatures, tokenSeq,
                 nonceSeq, proc, impl, norm, oauth, verify>>

\* part_002:41  setInterval(() => this.refreshedTimes = 0, 1000 * 7200)
ClearCounter ==
  /\ impl = "js"
  /\ now >= nextClear
  /\ refreshedTimes' = 0
  /\ nextClear' = nextClear + ClearCountInterval
  /\ hist' = [hist EXCEPT !.manual = 0, !.admitted = 0, !.clears = @ + 1]
  /\ UNCHANGED <<now, globalToken, signatures, tokenSeq, nonceSeq, proc, impl, norm, oauth, verify>>

----------------------------------------------------------------------------
(* The OAuth class (src/lib/OAuth.ts).  One call at a time; the store keeps *)
(* one record per key.                                                      *)

NoCode == ""
NoKey == ""
Codes == {NoCode, "code"}
OpenId == "openid"
KeyArgs == {NoKey, "sid", OpenId}
StoreKeys == KeyArgs \ {NoKey}

\* The expires_in values of an upstream answer, in seconds (0: none given).
ExpiresIn == {0, 60, 61, 7200}
\* The margin of OAuth.ts:99, in seconds.
ExpireMargin == 60
\* The clock steps, in milliseconds.
ClockSteps == {1, 999}

\* The margin left out.
setAccessTokenExpirationTimeNoMargin(tokenInfo, t) ==
  IF Field(tokenInfo, "expires_in") = 0 THEN tokenInfo
  ELSE Merge(tokenInfo, [expirationTime |-> t + tokenInfo.expires_in * 1000])

\* OAuth.ts:94-101
setAccessTokenExpirationTime(tokenInfo, t) ==
  IF Field(tokenInfo, "expires_in") = 0 THEN tokenInfo
  ELSE Merge(tokenInfo,
             [expirationTime |-> t + (tokenInfo.expires_in - ExpireMargin) * 1000])

\* The expiry test with a second margin of a second.
isAccessTokenExpiredEarly(tokenInfo, t) ==
  IF Field(tokenInfo, "expirationTime") = 0 THEN TRUE
  ELSE t - tokenInfo.expirationTime >= -1000

\* The expiry test that never finds a record expired.
isAccessTokenExpiredNever(tokenInfo, t) == FALSE

\* The expiry test that lets the instant of expiry pass as valid.
isAccessTokenExpiredLate(tokenInfo, t) ==
  IF Field(tokenInfo, "expirationTime") = 0 THEN TRUE
  ELSE t - tokenInfo.expirationTime > 0

\* OAuth.ts:308-311
isAccessTokenExpired(tokenInfo, t) ==
  IF Field(tokenInfo, "expirationTime") = 0 THEN TRUE
  ELSE t - tokenInfo.expirationTime >= 0

\* The key always taken from the answer.
OAuthKeyFromAnswer(key, data) == data.openid

\* OAuth.ts:212, 248   key || data.openid
OAuthKey(key, data) == IF key # NoKey THEN key ELSE data.openid

\* What upstream answers to a code exchange or a refresh: the n-th token pair.
TokenAnswer(n, expires) ==
  Merge([access_token |-> n, refresh_token |-> 100 + n, openid |-> OpenId],
        IF expires # 0 THEN [expires_in |-> expires] ELSE Undefined)

\* What upstream answers to /sns/userinfo.
Profile == [openid |-> OpenId, nickname |-> "nick"]

OAuthCall ==
  [op |-> "idle", pc |-> "idle", code |-> NoCode, key |-> NoKey,
   withToken |-> FALSE, tokenInfo |-> Undefined, data |-> Undefined,
   result |-> Undefined, err |-> "",
   \* observation of the call, read by the properties only
   nExchange |-> 0, nRefresh |-> 0, nProfile |-> 0, nRead |-> 0, nWrite |-> 0,
   refreshWith |-> 0, profileWith |-> 0, seen |-> Undefined, seenAt |-> 0,
   store0 |-> Undefined, expires |-> 0, order |-> <<>>]

OAuthIdle ==
  [store |-> [k \in StoreKeys |-> Undefined], call |-> OAuthCall,
   seq |-> 0, calls |-> 0, ticks |-> 0]

OthersUnchanged ==
  UNCHANGED <<nextClear, refreshedTimes, globalToken, signatures, tokenSeq,
              nonceSeq, proc, hist, impl, norm, verify>>

\* The stored record of a key argument; none for the empty key.
Stored(key) == IF key \in StoreKeys THEN oauth.store[key] ELSE Undefined

\* A prefix that asks the store first whenever a key is given.
EnterGetAccessTokenCacheFirst(c) ==
  IF c.code # NoCode /\ c.key = NoKey
  THEN [c EXCEPT !.pc = "exchange_wait", !.nExchange = @ + 1,
                 !.order = Append(@, "exchange")]
  ELSE [c EXCEPT !.pc = "read_wait", !.nRead = @ + 1]

\* OAuth.ts:174-178  the synchronous prefix of getAccessToken(code, key): with
\* a code the exchange request is sent (196-210), without one the store is asked.
EnterGetAccessToken(c) ==
  IF c.code # NoCode
  THEN [c EXCEPT !.pc = "exchange_wait", !.nExchange = @ + 1,
                 !.order = Append(@, "exchange")]
  ELSE [c EXCEPT !.pc = "read_wait", !.nRead = @ + 1]

\* OAuth.ts:174  getAccessToken(code, key) called (148-150 getUserBaseInfo)
GetAccessToken(code, key) ==
  /\ oauth.call.pc = "idle"
  /\ oauth.calls < MaxOCalls
  /\ oauth' = [oauth EXCEPT
       !.calls = @ + 1,
       !.call = EnterGetAccessToken(
                  [OAuthCall EXCEPT !.op = "getAccessToken", !.code = code,
                                    !.key = key, !.store0 = oauth.store])]
  /\ UNCHANGED now /\ OthersUnchanged

\* OAuth.ts:159-164  getUserInfo(code, key, withToken) called
GetUserInfo(code, key, withToken) ==
  /\ oauth.call.pc = "idle"
  /\ oauth.calls < MaxOCalls
  /\ oauth' = [oauth EXCEPT
       !.calls = @ + 1,
       !.call = EnterGetAccessToken(
                  [OAuthCall EXCEPT !.op = "getUserInfo", !.code = code,
                                    !.key = key, !.withToken = withToken,
                                    !.store0 = oauth.store])]
  /\ UNCHANGED now /\ OthersUnchanged

\* OAuth.ts:164-165, 67-79  getAccessToken has resolved with tokenInfo:
\* getAccessToken's caller has its value; getUserInfo sends the profile request.
AfterToken(c, tokenInfo) ==
  IF c.op = "getAccessToken"
  THEN [c EXCEPT !.pc = "done", !.result = tokenInfo]
  ELSE [c EXCEPT !.pc = "profile_wait", !.tokenInfo = tokenInfo,
                 !.nProfile = @ + 1,
                 !.profileWith = Field(tokenInfo, "access_token"),
                 !.order = Append(@, "profile")]

OAuthRejected(c, e) == [c EXCEPT !.pc = "done", !.err = e]

\* OAuth.ts:210-216, 217-220  the code exchange is answered
ExchangeResponse(ok, expires) ==
  LET c == oauth.call
      data == setAccessTokenExpirationTime(TokenAnswer(oauth.seq + 1, expires), now)
      stamped == Merge(data, [key |-> OAuthKey(c.key, data),
                              createDate |-> now, modifyDate |-> now])
  IN
  /\ c.pc = "exchange_wait"
  /\ IF ok
     THEN oauth' = [oauth EXCEPT !.seq = @ + 1,
                      !.call = [c EXCEPT !.pc = "save_wait", !.data = stamped,
                                         !.expires = expires]]
     ELSE oauth' = [oauth EXCEPT !.call = OAuthRejected(c, "exchange")]
  /\ UNCHANGED now /\ OthersUnchanged

\* The store's saveOAuthAccessToken(key, data) sets the record of the key and
\* answers with it (OAuth.ts:216).
SaveOAuthAccessToken ==
  LET c == oauth.call IN
  /\ c.pc = "save_wait"
  /\ oauth' = [oauth EXCEPT
       !.store[c.data.key] = c.data,
       !.call = AfterToken([c EXCEPT !.nWrite = @ + 1, !.data = Undefined],
                           c.data)]
  /\ UNCHANGED now /\ OthersUnchanged

\* A read that takes a missing record for an expired one.
OAuthReadRefreshingMissing ==
  LET c == oauth.call
      tokenInfo == Stored(c.key)
      obs == [c EXCEPT !.seen = tokenInfo, !.seenAt = now]
  IN
  /\ c.pc = "read_wait"
  /\ oauth' = [oauth EXCEPT !.call =
       IF isAccessTokenExpired(tokenInfo, now)
       THEN [obs EXCEPT !.pc = "refresh_wait", !.tokenInfo = tokenInfo,
                        !.nRefresh = @ + 1,
                        !.refreshWith = Field(tokenInfo, "refresh_token"),
                        !.order = Append(@, "refresh")]
       ELSE AfterToken(obs, tokenInfo)]
  /\ UNCHANGED now /\ OthersUnchanged

\* OAuth.ts:178-187  the store's getOAuthAccessToken(key) is answered
OAuthRead ==
  LET c == oauth.call
      tokenInfo == Stored(c.key)
      obs == [c EXCEPT !.seen = tokenInfo, !.seenAt = now]
  IN
  /\ c.pc = "read_wait"
  /\ oauth' = [oauth EXCEPT !.call =
       IF ~Exists(tokenInfo) THEN OAuthRejected(obs, "please get new code!")
       ELSE IF isAccessTokenExpired(tokenInfo, now)
       THEN [obs EXCEPT !.pc = "refresh_wait", !.tokenInfo = tokenInfo,
                        !.nRefresh = @ + 1,
                        !.refreshWith = Field(tokenInfo, "refresh_token"),
                        !.order = Append(@, "refresh")]
       ELSE AfterToken(obs, tokenInfo)]
  /\ UNCHANGED now /\ OthersUnchanged

\* A refresh answer that, on failure, drops the record of the key.
RefreshResponseDropping(ok, expires) ==
  LET c == oauth.call
      data == setAccessTokenExpirationTime(TokenAnswer(oauth.seq + 1, expires), now)
  IN
  /\ c.pc = "refresh_wait"
  /\ IF ok
     THEN oauth' = [oauth EXCEPT !.seq = @ + 1,
                      !.call = [c EXCEPT !.pc = "update_wait",
                                         !.data = Merge(data, [modifyDate |-> now]),
                                         !.expires = expires]]
     ELSE oauth' = [oauth EXCEPT !.store[c.key] = Undefined,
                                 !.call = OAuthRejected(c, "refresh")]
  /\ UNCHANGED now /\ OthersUnchanged

\* OAuth.ts:246-250, 251-254  the refresh request is answered
RefreshResponse(ok, expires) ==
  LET c == oauth.call
      data == setAccessTokenExpirationTime(TokenAnswer(oauth.seq + 1, expires), now)
  IN
  /\ c.pc = "refresh_wait"
  /\ IF ok
     THEN oauth' = [oauth EXCEPT !.seq = @ + 1,
                      !.call = [c EXCEPT !.pc = "update_wait",
                                         !.data = Merge(data, [modifyDate |-> now]),
                                         !.expires = expires]]
     ELSE oauth' = [oauth EXCEPT !.call = OAuthRejected(c, "refresh")]
  /\ UNCHANGED now /\ OthersUnchanged

\* The store's updateOAuthAccessToken(key, data) merges data into the record
\* of the key and answers with the record (OAuth.ts:250).
UpdateOAuthAccessToken ==
  LET c == oauth.call
      oauthKey == OAuthKey(c.key, c.data)
      merged == Merge(oauth.store[oauthKey], c.data)
  IN
  /\ c.pc = "update_wait"
  /\ oauth' = [oauth EXCEPT
       !.store[oauthKey] = merged,
       !.call = AfterToken([c EXCEPT !.nWrite = @ + 1, !.data = Undefined],
                           merged)]
  /\ UNCHANGED now /\ OthersUnchanged

\* OAuth.ts:79-85  the profile request is answered
ProfileResponse(ok) ==
  LET c == oauth.call IN
  /\ c.pc = "profile_wait"
  /\ oauth' = [oauth EXCEPT !.call =
       IF ok
       THEN [c EXCEPT !.pc = "done",
                      !.result = IF c.withToken THEN Merge(c.tokenInfo, Profile)
                                 ELSE Profile]
       ELSE OAuthRejected(c, "profile")]
  /\ UNCHANGED now /\ OthersUnchanged

\* The caller has taken the outcome.
OAuthReturn ==
  /\ oauth.call.pc = "done"
  /\ oauth' = [oauth EXCEPT !.call = OAuthCall]
  /\ UNCHANGED now /\ OthersUnchanged

\* Date.now() advances.
OAuthTick(d) ==
  /\ oauth.ticks < MaxOTicks
  /\ now' = now + d
  /\ oauth' = [oauth EXCEPT !.ticks = @ + 1]
  /\ OthersUnchanged

----------------------------------------------------------------------------
(* verifySignature and the /api/wechat route (src/demo/index.js:42-48).  A   *)
(* query string value is a string over the digits; the token is configured. *)

MaxQLen == 3

QueryChars == {"1", "2"}

RECURSIVE QueryStringsOfLen(_)
QueryStringsOfLen(n) ==
  IF n = 0 THEN {<<>>}
  ELSE {Append(s, c) : s \in QueryStringsOfLen(n - 1), c \in QueryChars}

QueryStrings == UNION {QueryStringsOfLen(n) : n \in 0..MaxQLen}

\* The values of options.wechatToken.
WechatTokens == {<<"t">>, <<"1">>}

\* The UTF-16 code unit of a character.
CharCode(c) ==
  CASE c = "1" -> 49
    [] c = "2" -> 50
    [] c = "t" -> 116
    [] OTHER -> 120

\* a < b of two strings: by code units, a proper prefix being the smaller.
StringLess(a, b) ==
  \E i \in 1..Len(b) :
    /\ i <= Len(a) + 1
    /\ SubSeq(a, 1, i - 1) = SubSeq(b, 1, i - 1)
    /\ IF i = Len(a) + 1 THEN TRUE ELSE CharCode(a[i]) < CharCode(b[i])

\* x put into the sorted sequence s, after the elements not greater than it.
RECURSIVE Insert(_, _)
Insert(s, x) ==
  IF s = <<>> THEN <<x>>
  ELSE IF StringLess(x, Head(s)) THEN <<x>> \o s
  ELSE <<Head(s)>> \o Insert(Tail(s), x)

\* Array.prototype.sort() without a comparator: ascending by code units.
RECURSIVE Sort(_)
Sort(keys) ==
  IF keys = <<>> THEN <<>>
  ELSE Insert(Sort(SubSeq(keys, 1, Len(keys) - 1)), keys[Len(keys)])

\* Array.prototype.join('')
RECURSIVE Join(_)
Join(keys) == IF keys = <<>> THEN <<>> ELSE Head(keys) \o Join(Tail(keys))

\* The check without the sort.
verifySignatureUnsorted(wechatToken, query) ==
  LET keys == <<wechatToken, query.timestamp, query.nonce>>
  IN genSHA1(Join(keys)) = query.signature

\* part_001:130-135 (part_002:100-105)
verifySignature(wechatToken, query) ==
  LET keys == <<wechatToken, query.timestamp, query.nonce>>
  IN genSHA1(Join(Sort(keys))) = query.signature

\* The signature the sender computes for a timestamp and a nonce.
SignatureFor(wechatToken, timestamp, nonce) ==
  genSHA1(Join(Sort(<<wechatToken, timestamp, nonce>>)))

\* The signature values a query comes with: the sender's, the hash of the
\* unsorted concatenation, and the hash of another string.
QuerySignatures(wechatToken, timestamp, nonce) ==
  {SignatureFor(wechatToken, timestamp, nonce),
   genSHA1(wechatToken \o timestamp \o nonce),
   genSHA1(<<"x">>)}

Echostr == "echostr"
NoQuery == [timestamp |-> <<>>, nonce |-> <<>>, signature |-> genSHA1(<<>>),
            echostr |-> Echostr]

VerifyIdle ==
  [wechatToken |-> <<>>, query |-> NoQuery, verified |-> FALSE,
   result |-> FALSE, reply |-> "", accepted |-> NoQuery, changed |-> ""]

\* The queries with a timestamp and a nonce, signed for some token.
QueriesOf(timestamp, nonce) ==
  {[timestamp |-> timestamp, nonce |-> nonce, signature |-> signature,
    echostr |-> Echostr] :
     signature \in UNION {QuerySignatures(token, timestamp, nonce) :
                            token \in WechatTokens}}

Queries ==
  UNION {QueriesOf(timestamp, nonce) :
           timestamp \in QueryStrings, nonce \in QueryStrings}

VerifyInit ==
  verify \in {[VerifyIdle EXCEPT !.wechatToken = token, !.query = query] :
                token \in WechatTokens, query \in Queries}

VerifyUnchanged ==
  UNCHANGED <<now, nextClear, refreshedTimes, globalToken, signatures,
              tokenSeq, nonceSeq, proc, hist, impl, norm, oauth>>

\* src/demo/index.js:42-48  GET /api/wechat: the echostr of a verified query
\* is sent back, "error" otherwise.
ApiWechat ==
  LET ok == verifySignature(verify.wechatToken, verify.query) IN
  /\ ~verify.verified
  /\ verify' = [verify EXCEPT
       !.verified = TRUE, !.result = ok,
       !.reply = IF ok THEN verify.query.echostr ELSE "error"]
  /\ VerifyUnchanged

\* A query that was verified comes again with one of its fields changed.
Resend(field, value) ==
  /\ verify.verified /\ verify.result
  /\ verify.changed = ""
  /\ value # verify.query[field]
  /\ verify' = [verify EXCEPT
       !.query[field] = value, !.accepted = verify.query,
       !.changed = field, !.verified = FALSE, !.result = FALSE, !.reply = ""]
  /\ VerifyUnchanged

\* A query that was verified comes again with its timestamp and its nonce
\* exchanged.
ResendSwapped ==
  /\ verify.verified /\ verify.result
  /\ verify.changed = ""
  /\ verify.query.timestamp # verify.query.nonce
  /\ verify' = [verify EXCEPT
       !.query.timestamp = verify.query.nonce,
       !.query.nonce = verify.query.timestamp, !.accepted = verify.query,
       !.changed = "swap", !.verified = FALSE, !.result = FALSE, !.reply = ""]
  /\ VerifyUnchanged

----------------------------------------------------------------------------
(* Specifications *)

Init ==
  /\ MainInit /\ impl \in Versions /\ norm = NormIdle /\ oauth = OAuthIdle
  /\ verify = VerifyIdle

\* The answers of the store and of upstream to the calls of the slots P.
Answers(P) ==
  \/ \E p \in P : SigRead(p)
  \/ \E p \in P : GtRead(p)
  \/ \E p \in P, ok \in BOOLEAN : TokenResponse(p, ok)
  \/ \E p \in P, ok \in BOOLEAN : TicketResponse(p, ok)
  \/ \E p \in P : GtWrite(p)
  \/ \E p \in P, ok \in BOOLEAN : Ticket2Response(p, ok)
  \/ \E p \in P : GtWrite2(p)
  \/ \E p \in P : SigExist(p)
  \/ \E p \in P : SigWrite(p)
  \/ \E p \in P : CachedRead(p)
  \/ \E p \in P : Return(p)

\* The slot a new call takes: the first free one of P (slots are alike),
\* while fewer than max calls have been made.
Free(P, max) ==
  {p \in P : /\ hist.calls < max
             /\ proc[p].pc = "idle"
             /\ \A q \in P : q < p => proc[q].pc # "idle"}

\* The calls a caller can make.
Calls(P, max) ==
  \/ \E p \in Free(P, max), u \in Urls, f \in BOOLEAN : GetSignature(p, u, f)
  \/ \E p \in Free(P, max), u \in Urls : GetCachedSignature(p, u)
  \/ \E p \in Free(P, max) : PrepareGlobalToken(p)
  \/ \E p \in Free(P, max) : GetNewTokenAndTicket(p)
  \/ \E p \in Free(P, max) : GetGlobalTokenAndTicket(p)

\* The manual refreshes of the global token.
Refreshes(P, max) ==
  \/ \E p \in Free(P, max) : GetNewTokenAndTicket(p)
  \/ \E p \in Free(P, max) : GetGlobalTokenAndTicket(p)

\* The answers to the manual refreshes of the slots P.
RefreshAnswers(P) ==
  \/ \E p \in P : GtRead(p)
  \/ \E p \in P, ok \in BOOLEAN : TokenResponse(p, ok)
  \/ \E p \in P, ok \in BOOLEAN : TicketResponse(p, ok)
  \/ \E p \in P : GtWrite(p)
  \/ \E p \in P, ok \in BOOLEAN : Ticket2Response(p, ok)
  \/ \E p \in P : GtWrite2(p)
  \/ \E p \in P : Return(p)

\* Overlapping calls.
Next ==
  \/ Calls(Procs, MaxCalls)
  \/ Answers(Procs)
  \/ Tick(MaxTicks)
  \/ ClearCounter

Spec == Init /\ [][Next]_vars

\* One call at a time, more of them.
NextSeq ==
  \/ Calls({1}, MaxSeqCalls)
  \/ Answers({1})
  \/ Tick(MaxSeqTicks)
  \/ ClearCounter

SpecSeq == Init /\ [][NextSeq]_vars

\* One call at a time, the clock read every REFRESH_INTERVAL.
NextAge ==
  \/ Calls({1}, MaxAgeCalls)
  \/ Answers({1})
  \/ TickInterval(MaxAgeTicks)
  \/ ClearCounter

SpecAge == Init /\ [][NextAge]_vars

\* Manual refreshes one after the other, over more than one window.
NextRate ==
  \/ Refreshes({1}, MaxRateCalls)
  \/ RefreshAnswers({1})
  \/ Tick(MaxRateTicks)
  \/ ClearCounter

SpecRate == Init /\ [][NextRate]_vars

\* Manual refreshes and prepares of the global token, one call at a time.
NextAuto ==
  \/ Refreshes({1}, MaxAutoCalls)
  \/ \E p \in Free({1}, MaxAutoCalls) : PrepareGlobalToken(p)
  \/ RefreshAnswers({1})
  \/ Tick(MaxAutoTicks)
  \/ ClearCounter

SpecAuto == Init /\ [][NextAuto]_vars

\* Overlapping manual refreshes within one window.
NextRace ==
  \/ Refreshes(Procs, MaxRaceCalls)
  \/ RefreshAnswers(Procs)

SpecRace == Init /\ [][NextRace]_vars

\* The normalizeUrl runs alone.
InitUrl ==
  /\ MainInit /\ impl \in Versions /\ NormInit /\ oauth = OAuthIdle
  /\ verify = VerifyIdle
NextUrl == Normalize
SpecUrl == InitUrl /\ [][NextUrl]_vars

\* The OAuth class alone.
InitOAuth ==
  /\ MainInit /\ impl = "ts" /\ norm = NormIdle /\ oauth = OAuthIdle
  /\ verify = VerifyIdle

NextOAuth ==
  \/ \E code \in Codes, key \in KeyArgs : GetAccessToken(code, key)
  \/ \E code \in Codes, key \in KeyArgs, withToken \in BOOLEAN :
       GetUserInfo(code, key, withToken)
  \/ \E ok \in BOOLEAN, expires \in ExpiresIn : ExchangeResponse(ok, expires)
  \/ SaveOAuthAccessToken
  \/ OAuthRead
  \/ \E ok \in BOOLEAN, expires \in ExpiresIn : RefreshResponse(ok, expires)
  \/ UpdateOAuthAccessToken
  \/ \E ok \in BOOLEAN : ProfileResponse(ok)
  \/ OAuthReturn
  \/ \E d \in ClockSteps : OAuthTick(d)

SpecOAuth == InitOAuth /\ [][NextOAuth]_vars

\* The operations of both classes, one call at a time. The two classes share
\* no state but the clock, so a run uses the one or the other.
NextCore ==
  \/ oauth = OAuthIdle /\ NextSeq
  \/ hist = HistInit /\ NextOAuth

SpecCore == Init /\ [][NextCore]_vars

\* The verification of the queries of the /api/wechat route alone.
InitVerify ==
  /\ MainInit /\ impl \in Versions /\ norm = NormIdle /\ oauth = OAuthIdle
  /\ VerifyInit

NextVerify ==
  \/ ApiWechat
  \/ \E value \in QueryStrings : Resend("timestamp", value)
  \/ \E value \in QueryStrings : Resend("nonce", value)
  \/ \E value \in QuerySignatures(verify.wechatToken, verify.query.timestamp,
                                   verify.query.nonce) :
       Resend("signature", value)
  \/ ResendSwapped

SpecVerify == InitVerify /\ [][NextVerify]_vars

----------------------------------------------------------------------------
(* Properties *)

Done(p, op) == proc[p].pc = "done" /\ proc[p].op = op

ViewFields == {"timestamp", "nonceStr", "signature", "url"}
ClientFields == ViewFields \cup {"appId"}

\* The record read is younger than, or exactly as old as, REFRESH_INTERVAL.
WithinTTL(record, t) == t - record.modifyDate <= REFRESH_INTERVAL

\* C1: a finished getSignature has returned the filtered view of the record
\* it read, with no upstream request and no store write of its own, exactly
\* when it was not forced and the record existed and was within the TTL when
\* read; in every other case it went through createSignature, and a value it
\* resolved with carries a nonce drawn during this call, after a store write.
C1_CacheOrCreate ==
  \A p \in Procs :
    Done(p, "getSignature") =>
      LET pr == proc[p]
          hit == ~pr.force /\ Exists(pr.seen) /\ WithinTTL(pr.seen, pr.seenAt)
      IN IF hit
         THEN /\ pr.err = ""
              /\ pr.path = "cache"
              /\ \A f \in ViewFields : pr.result[f] = pr.seen[f]
              /\ pr.nTok = 0 /\ pr.nTick = 0 /\ pr.nWrite = 0
         ELSE /\ pr.path # "cache"
              /\ pr.err = "" =>
                   /\ pr.result.nonceStr > pr.nonce0
                   /\ pr.nWrite >= 1

\* A getSignature was answered from a record exactly REFRESH_INTERVAL old.
C1_Witness ==
  \E p \in Procs :
    /\ Done(p, "getSignature")
    /\ proc[p].path = "cache"
    /\ proc[p].seenAt - proc[p].seen.modifyDate = REFRESH_INTERVAL
    /\ Exists(proc[p].result)

\* C2: what getSignature, createSignature and getCachedSignature resolve with
\* has no field but appId, timestamp, nonceStr, signature and url (all five
\* from filterSignature, or none), and on a cache hit the value is the same
\* whatever ticket and access token the cached record holds.
C2_NoTicketNoToken ==
  \A p \in Procs :
    (proc[p].pc = "done" /\ proc[p].err = ""
       /\ proc[p].op \in {"getSignature", "getCachedSignature"}) =>
      LET pr == proc[p] IN
      /\ DOMAIN pr.result \subseteq ClientFields
      /\ impl = "ts" => DOMAIN pr.result \in {{}, ClientFields}
      /\ (pr.path = "cache" /\ Exists(pr.seen)) =>
           \A ticket \in {0, 1, TicketOf(1)}, token \in {0, 1, 2} :
             FilterBy(impl, [pr.seen EXCEPT !.jsapi_ticket = ticket,
                                            !.accessToken = token]) = pr.result

\* A created signature was returned, and a cached one by getCachedSignature.
C2_Witness ==
  /\ impl = "ts"
  /\ \E p \in Procs :
       /\ Done(p, "getSignature") /\ proc[p].path # "cache"
       /\ Exists(proc[p].result)
  /\ \E p \in Procs :
       Done(p, "getCachedSignature") /\ Exists(proc[p].result)

\* C3: two urls that differ only in their fragment have the same cache key.
C3_SameKey ==
  (norm.done /\ StripFragment(norm.a) = StripFragment(norm.b)) =>
    norm.ka = norm.kb

ManualOps == {"getNewTokenAndTicket", "getGlobalTokenAndTicket"}

\* The call of slot p has read the global token record.
HasReadToken(p) ==
  /\ proc[p].op = "prepareGlobalToken"
  /\ proc[p].pc \notin {"idle", "gt_read"}

\* C4: a prepare that reads a present record within the TTL resolves at once
\* with that record, has sent no access token and no ticket request and has
\* written nothing, and the store still holds the record.
C4_CachedTokenReturned ==
  \A p \in Procs :
    (HasReadToken(p) /\ Exists(proc[p].seen)
       /\ WithinTTL(proc[p].seen, proc[p].seenAt)) =>
      /\ proc[p].pc = "done" /\ proc[p].err = ""
      /\ proc[p].result = proc[p].seen
      /\ globalToken = proc[p].seen
      /\ proc[p].nTok = 0 /\ proc[p].nTick = 0 /\ proc[p].nWrite = 0

\* A third call in a row is answered from the one token fetched so far.
C4_Witness ==
  \E p \in Procs :
    /\ Done(p, "prepareGlobalToken")
    /\ proc[p].path = "+cached"
    /\ hist.calls >= 3
    /\ tokenSeq = 1

\* C5: a prepare that finds no record, or one older than REFRESH_INTERVAL,
\* sends one access token request, then one ticket request carrying the token
\* just received, and writes the pair once, after both have succeeded.
C5_OneFetchEach ==
  \A p \in Procs :
    (HasReadToken(p)
       /\ (~Exists(proc[p].seen)
             \/ proc[p].seenAt - proc[p].seen.modifyDate > REFRESH_INTERVAL)) =>
      LET pr == proc[p] IN
      /\ pr.nTok = 1
      /\ pr.pc = "tok_wait" => pr.nTick = 0 /\ pr.nWrite = 0
      /\ pr.pc = "tick_wait" =>
           pr.nTick = 1 /\ pr.nWrite = 0 /\ pr.tokOk /\ pr.tickFor = pr.accessToken
      /\ pr.pc = "gt_write" =>
           /\ pr.nTick = 1 /\ pr.nWrite = 0
           /\ pr.info.accessToken = pr.accessToken
           /\ pr.info.jsapi_ticket = TicketOf(pr.accessToken)
      /\ pr.pc = "done" =>
           CASE pr.err = "token" -> pr.nTick = 0 /\ pr.nWrite = 0
             [] pr.err = "ticket" -> pr.nTick = 1 /\ pr.nWrite = 0
             [] OTHER -> /\ pr.err = ""
                         /\ pr.nTick = 1 /\ pr.nWrite = 1
                         /\ pr.result.accessToken = pr.accessToken
                         /\ pr.result.jsapi_ticket = TicketOf(pr.accessToken)
      /\ pr.pc \in {"tok_wait", "tick_wait", "gt_write", "done"}

\* An expired record was replaced by a freshly fetched pair.
C5_Witness ==
  \E p \in Procs :
    /\ Done(p, "prepareGlobalToken") /\ proc[p].err = ""
    /\ Exists(proc[p].seen)
    /\ proc[p].seenAt - proc[p].seen.modifyDate > REFRESH_INTERVAL
    /\ proc[p].nWrite = 1

\* The call of slot p has read a record and gone on with it as valid.
TreatedAsValid(p) ==
  \/ proc[p].op = "getSignature" /\ proc[p].path = "cache"
  \/ proc[p].op = "prepareGlobalToken" /\ proc[p].path = "+cached"

\* The call of slot p has read a record that is there and was not forced.
HasReadRecord(p) ==
  /\ \/ proc[p].op = "getSignature" /\ proc[p].pc # "sig_read" /\ ~proc[p].force
     \/ HasReadToken(p)
  /\ Exists(proc[p].seen)

\* C6 as stated: a record is treated as valid only while
\* now - modifyDate < REFRESH_INTERVAL.
C6_ValidOnlyBelowTTL ==
  \A p \in Procs :
    (HasReadRecord(p) /\ TreatedAsValid(p)) =>
      proc[p].seenAt - proc[p].seen.modifyDate < REFRESH_INTERVAL

\* C6 as amended: a record (global token or cached signature) is treated as
\* valid exactly while now - modifyDate <= REFRESH_INTERVAL: it is still valid
\* at the interval itself and expired once older.
C6_ValidUpToTTL ==
  \A p \in Procs :
    HasReadRecord(p) =>
      (TreatedAsValid(p) <=>
         proc[p].seenAt - proc[p].seen.modifyDate <= REFRESH_INTERVAL)

\* A global token record exactly REFRESH_INTERVAL old was returned as valid.
C6_Witness ==
  \E p \in Procs :
    /\ Done(p, "prepareGlobalToken") /\ proc[p].path = "+cached"
    /\ proc[p].seenAt - proc[p].seen.modifyDate = REFRESH_INTERVAL

\* C7: of the manual refreshes requested within one window, the first five
\* are not turned away and the sixth is rejected with the rate-limit error,
\* having sent no access token or ticket request and written nothing.
C7_SixthRejected ==
  \A p \in Procs :
    (proc[p].op \in ManualOps) =>
      /\ proc[p].seq <= MaxRefreshedTimes => proc[p].err # "ratelimit"
      /\ proc[p].seq = MaxRefreshedTimes + 1 =>
           /\ proc[p].pc = "done" /\ proc[p].err = "ratelimit"
           /\ proc[p].nTok = 0 /\ proc[p].nTick = 0 /\ proc[p].nWrite = 0
           /\ globalToken = proc[p].gt0

Min(a, b) == IF a <= b THEN a ELSE b

\* C8: where the counter and its timer exist, the manual refreshes that have
\* sent an access token request since the timer last fired are the first five
\* requested since then and no more.
C8_AtMostFivePerWindow ==
  impl = "js" =>
    /\ hist.admitted <= MaxRefreshedTimes
    /\ hist.admitted = Min(hist.manual, MaxRefreshedTimes)

\* After the timer has fired, five manual refreshes went upstream again.
C8_Witness ==
  /\ impl = "js"
  /\ hist.clears >= 1
  /\ hist.admitted = MaxRefreshedTimes

\* C9 as stated needs the threshold test of a request to come before its
\* increment: a request passes the test and leaves the counter as it was.
C9_TestBeforeIncrement ==
  [][\A p \in Procs :
       (proc[p].pc = "idle" /\ proc'[p].op = "getNewTokenAndTicket"
          /\ proc'[p].pc = "tok_wait") =>
         refreshedTimes' = refreshedTimes]_vars

\* C9 as amended: a manual refresh increments the counter and tests it in
\* one synchronous step, so overlapping requests each see their own count: the
\* counter is the number of requests of the window, no two requests hold the
\* same count, only counts up to five are let through, and no more than five
\* counted refreshes go upstream in a window.
C9_CountedWhenTested ==
  impl = "js" =>
    /\ refreshedTimes = hist.manual
    /\ hist.admitted <= MaxRefreshedTimes
    /\ \A p \in Procs :
         proc[p].op = "getNewTokenAndTicket" =>
           /\ proc[p].nTok >= 1 <=> proc[p].seq <= MaxRefreshedTimes
           /\ \A q \in Procs \ {p} :
                proc[q].op = "getNewTokenAndTicket" => proc[q].seq # proc[p].seq

\* While the fifth request of the window waits for upstream, a sixth, made
\* after it, has been rejected.
C9_Witness ==
  \E p \in Procs, q \in Procs :
    /\ proc[p].op = "getNewTokenAndTicket" /\ proc[p].pc = "tok_wait"
    /\ proc[p].seq = MaxRefreshedTimes
    /\ proc[q].op = "getNewTokenAndTicket" /\ proc[q].err = "ratelimit"
    /\ proc[q].seq = MaxRefreshedTimes + 1

\* The access token request of slot p succeeded and the ticket request that
\* followed it failed.
TicketFailedAfterToken(p) ==
  /\ proc[p].op \in ManualOps \cup {"prepareGlobalToken"}
  /\ proc[p].tokOk /\ proc[p].err = "ticket"

\* C10: when the access token was fetched and a ticket request after it
\* failed, the call has rejected with the ticket error and each request was
\* sent once. If it was the ticket request that follows the token request,
\* nothing was written and the stored record is the one of before the call.
\* If it was the later ticket request of getGlobalTokenAndTicket, the stored
\* record is the pair the completed prepare step wrote, written once.
C10_TicketFailureKeepsStore ==
  \A p \in Procs :
    TicketFailedAfterToken(p) =>
      /\ proc[p].pc = "done"
      /\ proc[p].nTok = 1
      /\ IF proc[p].nTick = 1
         THEN /\ proc[p].nWrite = 0
              /\ globalToken = proc[p].gt0
         ELSE /\ proc[p].op = "getGlobalTokenAndTicket"
              /\ proc[p].nTick = 2
              /\ proc[p].nWrite = 1
              /\ globalToken =
                   Merge(proc[p].gt0,
                         TokenInfo(proc[p].accessToken,
                                   TicketOf(proc[p].accessToken),
                                   globalToken.modifyDate))

\* The ticket request failed while the store held an earlier record.
C10_Witness ==
  \E p \in Procs :
    /\ TicketFailedAfterToken(p)
    /\ proc[p].nTick = 1
    /\ Exists(globalToken)

\* C11: the record a prepare resolves with holds an access token and a
\* ticket; when it came from the store it passed the expiry test at the
\* instant it was returned, and when it was fetched it was stamped during the
\* call; and every signature on its way to the store was generated from a
\* ticket and an access token that are there.
C11_PreparedRecordComplete ==
  \A p \in Procs :
    /\ (Done(p, "prepareGlobalToken") /\ proc[p].err = "") =>
         LET pr == proc[p] IN
         /\ Field(pr.result, "accessToken") # 0
         /\ Field(pr.result, "jsapi_ticket") # 0
         /\ "modifyDate" \in DOMAIN pr.result
         /\ IF pr.path = "+cached"
            THEN ~isTokenExpired(pr.result.modifyDate, pr.seenAt)
            ELSE pr.result.modifyDate >= pr.t0
    /\ proc[p].pc \in {"sig_exist", "sig_write"} =>
         /\ Field(proc[p].sig, "jsapi_ticket") # 0
         /\ Field(proc[p].sig, "accessToken") # 0

\* A prepare made at REFRESH_INTERVAL fetched a pair and resolved with it, and
\* a signature has been generated from a prepared pair.
C11_Witness ==
  /\ \E p \in Procs :
       /\ Done(p, "prepareGlobalToken") /\ proc[p].err = ""
       /\ proc[p].path = "+refresh"
       /\ proc[p].result.modifyDate = REFRESH_INTERVAL
  /\ \E k \in UrlKeys : Exists(signatures[k])

\* The getSignature of slot p has created and saved a signature.
Saved(p) ==
  /\ Done(p, "getSignature") /\ proc[p].err = ""
  /\ proc[p].path # "cache"

KeptFields == {"createDate", "url", "signatureName"}
NewFields == {"nonceStr", "timestamp", "signature"}

\* C12: with one call at a time, after a signature was saved for a url that
\* had a record, the record has its createDate, url and signatureName of
\* before and the nonceStr, timestamp, signature, ticket and access token of
\* this call and a modifyDate stamped in this call; saved for a url without a
\* record, the record's createDate is its modifyDate.
C12_UpdateInPlace ==
  \A p \in Procs :
    Saved(p) =>
      LET pr == proc[p]
          rec == signatures[pr.url]
      IN /\ Exists(rec)
         /\ \A f \in NewFields : rec[f] = pr.result[f]
         /\ rec.nonceStr > pr.nonce0
         /\ rec.jsapi_ticket = globalToken.jsapi_ticket
         /\ rec.accessToken = globalToken.accessToken
         /\ rec.modifyDate >= pr.t0
         /\ IF Exists(pr.seen)
            THEN \A f \in KeptFields : rec[f] = pr.seen[f]
            ELSE rec.createDate = rec.modifyDate

\* C12 for the class of part_001 alone.
C12_UpdateInPlaceTs == impl = "ts" => C12_UpdateInPlace

Stamps == {"createDate", "modifyDate"}

Recomputed(rec) ==
  GenerateBy(impl, rec.url, rec, rec.nonceStr, rec.timestamp * 1000).signature

\* The last signature saved for the url of slots p and q is of one of them.
LastSavedBy(p, q) ==
  hist.saved[proc[p].url].nonceStr
    \in {proc[p].result.nonceStr, proc[q].result.nonceStr}

\* C14: when two getSignature calls for one url have both created and saved
\* a signature and none was saved for the url after theirs, each has prepared
\* the token and written the store itself, and the one record of the url carries the nonceStr, timestamp and signature of
\* the call that wrote last, the signature being the one computed from the
\* record's own ticket, nonceStr, timestamp and url.
C14_LastWriteWins ==
  \A p \in Procs : \A q \in Procs \ {p} :
    (Saved(p) /\ Saved(q) /\ proc[p].url = proc[q].url /\ LastSavedBy(p, q)) =>
      LET rec == signatures[proc[p].url] IN
      /\ proc[p].nWrite >= 1 /\ proc[q].nWrite >= 1
      /\ proc[p].result.nonceStr # proc[q].result.nonceStr
      /\ rec.nonceStr = hist.saved[proc[p].url].nonceStr
      /\ \E w \in {p, q} :
           \A f \in ViewFields : rec[f] = proc[w].result[f]
      /\ rec.signature = Recomputed(rec)

\* Both calls found no record when they asked and both inserted one.
C14_Witness ==
  \E p \in Procs : \E q \in Procs \ {p} :
    /\ Saved(p) /\ Saved(q) /\ proc[p].url = proc[q].url
    /\ ~proc[p].existing /\ ~proc[q].existing
    /\ ~proc[p].force /\ ~proc[q].force

----------------------------------------------------------------------------
(* Properties of the OAuth class *)

\* The OAuth call in flight was made with a code.
WithCode == oauth.call.pc # "idle" /\ oauth.call.code # NoCode

\* The OAuth call in flight was made without a code.
WithoutCode == oauth.call.pc # "idle" /\ oauth.call.code = NoCode

OAuthDone(op) == oauth.call.pc = "done" /\ oauth.call.op = op

\* C15: a call made with a code has sent the code exchange, once, as its
\* first request, has not asked the store for the cached record and has sent
\* no refresh; the token it resolves with is the one upstream just issued.
C15_CodeAlwaysExchanges ==
  WithCode =>
    LET c == oauth.call IN
    /\ c.nExchange = 1 /\ c.order[1] = "exchange"
    /\ c.nRead = 0 /\ c.nRefresh = 0
    /\ (OAuthDone("getAccessToken") /\ c.err = "") =>
         /\ c.result.access_token = oauth.seq
         /\ \A k \in StoreKeys :
              Exists(c.store0[k]) => c.store0[k].access_token < c.result.access_token

\* A code exchange was made although the key had a cached, unexpired record.
C15_Witness ==
  /\ OAuthDone("getAccessToken") /\ oauth.call.err = ""
  /\ oauth.call.code # NoCode /\ oauth.call.key = "sid"
  /\ Exists(oauth.call.store0["sid"])
  /\ ~isAccessTokenExpired(oauth.call.store0["sid"], now)

\* The key a record of the call in flight belongs under: the caller's key
\* when one was given, the openid upstream returned otherwise.
ExpectedKey == IF oauth.call.key # NoKey THEN oauth.call.key ELSE OpenId

\* C16: once a code exchange has been stored, the token upstream issued is
\* the record of the caller's key, or of the openid when no key was given,
\* and no other record has changed; and a call without a code for a key that
\* has a record does not fail with the error of the missing record, which is
\* raised exactly when the key has none.
C16_StoredUnderKeyOrOpenId ==
  LET c == oauth.call IN
  /\ (WithCode /\ c.nWrite = 1) =>
       /\ Exists(oauth.store[ExpectedKey])
       /\ oauth.store[ExpectedKey].access_token = oauth.seq
       /\ oauth.store[ExpectedKey].key = ExpectedKey
       /\ \A k \in StoreKeys \ {ExpectedKey} : oauth.store[k] = c.store0[k]
  /\ (WithoutCode /\ c.pc # "read_wait") =>
       (c.err = "please get new code!"
          <=> (c.key = NoKey \/ ~Exists(c.store0[c.key])))

\* A call without a code found the record an exchange without a key stored
\* under the openid.
C16_Witness ==
  /\ OAuthDone("getAccessToken") /\ oauth.call.err = ""
  /\ oauth.call.code = NoCode /\ oauth.call.key = OpenId
  /\ ~Exists(oauth.store["sid"])
  /\ oauth.call.result.access_token = 1

\* The getAccessToken in flight, made without a code, has read a record
\* whose expirationTime was still ahead.
ReadValid ==
  /\ WithoutCode /\ oauth.call.pc # "read_wait"
  /\ Exists(oauth.call.seen)
  /\ Field(oauth.call.seen, "expirationTime") # 0
  /\ oauth.call.seenAt < oauth.call.seen.expirationTime

\* C17: a getAccessToken without a code that reads a valid record resolves
\* at once with that record, has sent no request upstream and written
\* nothing, and the store, with the record in it, is as it was.
C17_ValidReturnedUnchanged ==
  (ReadValid /\ oauth.call.op = "getAccessToken") =>
    LET c == oauth.call IN
    /\ c.pc = "done" /\ c.err = ""
    /\ c.result = c.seen
    /\ c.nExchange = 0 /\ c.nRefresh = 0 /\ c.nProfile = 0 /\ c.nWrite = 0
    /\ oauth.store = c.store0
    /\ oauth.store[c.key] = c.seen

\* A record was returned one millisecond before its expirationTime.
C17_Witness ==
  /\ ReadValid /\ OAuthDone("getAccessToken")
  /\ oauth.call.seen.expirationTime - oauth.call.seenAt = 1

\* The call in flight, made without a code, has read a record whose
\* expirationTime is not ahead (or that has none).
ReadExpired ==
  /\ WithoutCode /\ oauth.call.pc # "read_wait"
  /\ Exists(oauth.call.seen)
  /\ \/ Field(oauth.call.seen, "expirationTime") = 0
     \/ oauth.call.seenAt >= oauth.call.seen.expirationTime

\* C18: a getUserInfo without a code that reads an expired record sends, as
\* its first request, one refresh carrying the refresh token of that record
\* and no code exchange; a profile request comes only after the refresh, once,
\* with the access token the refresh issued and stored, not the one read; and
\* after a failed refresh the call is over without a profile request.
C18_RefreshBeforeProfile ==
  (ReadExpired /\ oauth.call.op = "getUserInfo") =>
    LET c == oauth.call IN
    /\ c.nRefresh = 1 /\ c.order[1] = "refresh"
    /\ c.refreshWith = c.seen.refresh_token
    /\ c.nExchange = 0
    /\ c.nProfile >= 1 =>
         /\ c.order = <<"refresh", "profile">>
         /\ c.profileWith = oauth.seq
         /\ c.profileWith # c.seen.access_token
         /\ c.profileWith = oauth.store[c.key].access_token
    /\ c.err = "refresh" => c.pc = "done" /\ c.nProfile = 0

\* A profile was fetched after the refresh of a record whose expirationTime
\* had passed.
C18_Witness ==
  /\ ReadExpired /\ OAuthDone("getUserInfo") /\ oauth.call.err = ""
  /\ Field(oauth.call.seen, "expirationTime") # 0
  /\ oauth.call.seenAt > oauth.call.seen.expirationTime
  /\ oauth.call.nProfile = 1

\* The call in flight has refreshed the record of its key and stored it.
RefreshStored ==
  WithoutCode /\ oauth.call.nRefresh = 1 /\ oauth.call.nWrite = 1

\* The record is unexpired at the instant it was stamped.
ValidWhenStamped(rec) ==
  /\ Field(rec, "expirationTime") # 0
  /\ rec.modifyDate < rec.expirationTime

\* C19 as stated: after a successful refresh the stored record of the key is
\* unexpired, whatever expires_in the answer of upstream carried.
C19_RefreshedIsValid ==
  (RefreshStored /\ oauth.call.expires # 0) =>
    ValidWhenStamped(oauth.store[oauth.call.key])

\* C19 as amended: a successful refresh stores the token upstream issued
\* under the same key and changes no other record; the stored record is
\* unexpired exactly when upstream returned an expires_in above the margin of
\* 60 seconds: its expirationTime is (expires_in - 60) seconds after the stamp,
\* and is the one of the expired record when no expires_in was returned.
C19_RefreshedValidAboveMargin ==
  RefreshStored =>
    LET c == oauth.call
        rec == oauth.store[c.key]
    IN /\ rec.access_token = oauth.seq
       /\ rec.refresh_token = 100 + oauth.seq
       /\ \A k \in StoreKeys \ {c.key} : oauth.store[k] = c.store0[k]
       /\ ValidWhenStamped(rec) <=> c.expires > ExpireMargin
       /\ IF c.expires = 0
          THEN Field(rec, "expirationTime") = Field(c.seen, "expirationTime")
          ELSE rec.expirationTime = rec.modifyDate + (c.expires - ExpireMargin) * 1000

\* A refresh answered with expires_in = 61 left the record valid for a second.
C19_Witness ==
  /\ RefreshStored
  /\ oauth.call.expires = 61
  /\ oauth.store[oauth.call.key].expirationTime
       = oauth.store[oauth.call.key].modifyDate + 1000

\* C20: when the refresh request has failed, the call is over with the
\* error of the refresh, having sent that one refresh, no code exchange and
\* no profile request and written nothing: the store is as it was before the
\* call, the expired record included.
C20_RefreshFailureKeepsStore ==
  oauth.call.err = "refresh" =>
    LET c == oauth.call IN
    /\ c.pc = "done" /\ ~Exists(c.result)
    /\ c.nRefresh = 1 /\ c.nExchange = 0 /\ c.nProfile = 0 /\ c.nWrite = 0
    /\ oauth.store = c.store0
    /\ oauth.store[c.key] = c.seen

\* A getAccessToken failed on the refresh of an expired record.
C20_Witness ==
  /\ OAuthDone("getAccessToken")
  /\ oauth.call.err = "refresh"
  /\ Field(oauth.call.seen, "expirationTime") # 0

\* The call in flight, made without a code, has asked the store and found no
\* record for its key.
ReadMissing ==
  /\ WithoutCode /\ oauth.call.pc # "read_wait"
  /\ ~Exists(oauth.call.seen)

\* C21 as stated: a call without a code that finds no record fails with the
\* error "no code, no cache".
C21_NoCodeNoCacheMessage ==
  ReadMissing => oauth.call.err = "no code, no cache"

\* C21 as amended: a call without a code that finds no record for its key is
\* over at once, rejected with the error 'please get new code!'; it has sent
\* no code exchange, no refresh and no profile request and written nothing,
\* and the store is as it was before the call.
C21_MissingRejected ==
  ReadMissing =>
    LET c == oauth.call IN
    /\ c.pc = "done" /\ ~Exists(c.result)
    /\ c.err = "please get new code!"
    /\ c.nRead = 1
    /\ c.nExchange = 0 /\ c.nRefresh = 0 /\ c.nProfile = 0 /\ c.nWrite = 0
    /\ c.order = <<>>
    /\ oauth.store = c.store0

\* A call for a key without a record was rejected while another key had one.
C21_Witness ==
  /\ ReadMissing /\ OAuthDone("getAccessToken")
  /\ oauth.call.key = "sid"
  /\ Exists(oauth.store[OpenId])

\* The call in flight, made without a code, has read a record of its key.
ReadRecord ==
  /\ WithoutCode /\ oauth.call.pc # "read_wait"
  /\ Exists(oauth.call.seen)

\* The call in flight has stamped the answer of a code exchange or a refresh
\* that carried an expires_in.
Stamped ==
  /\ oauth.call.pc \in {"save_wait", "update_wait"}
  /\ oauth.call.expires # 0

\* The call in flight has stored the answer of a code exchange or a refresh
\* that carried an expires_in.
StoredWithExpiry == oauth.call.nWrite = 1 /\ oauth.call.expires # 0

----------------------------------------------------------------------------
(* Properties of verifySignature *)

\* The orders in which three keys can be put.
Orders == {<<1, 2, 3>>, <<1, 3, 2>>, <<2, 1, 3>>, <<2, 3, 1>>, <<3, 1, 2>>,
           <<3, 2, 1>>}

\* The strings that are the three keys of a query concatenated in an
\* ascending order.
SortedConcatenations(wechatToken, query) ==
  LET keys == <<wechatToken, query.timestamp, query.nonce>> IN
  {keys[o[1]] \o keys[o[2]] \o keys[o[3]] :
     o \in {p \in Orders : /\ ~StringLess(keys[p[2]], keys[p[1]])
                           /\ ~StringLess(keys[p[3]], keys[p[2]])}}

\* The signature of the query is the hash of its sorted concatenation.
HashMatches(wechatToken, query) ==
  \E str \in SortedConcatenations(wechatToken, query) :
    query.signature = genSHA1(str)

\* A query that was accepted has come again with one field changed and has
\* been verified.
ResentVerified(fields) == verify.verified /\ verify.changed \in fields

\* C23 as stated: a query obtained from an accepted one by changing the
\* timestamp, the nonce or the signature is rejected.
C23_ChangedRejected ==
  ResentVerified({"timestamp", "nonce", "signature"}) => ~verify.result

\* C23 as amended: verifySignature returns true exactly when the signature
\* of the query is the hash of the token, the timestamp and the nonce
\* concatenated in ascending order, and the route answers with the echostr
\* exactly then. A query obtained from an accepted one is rejected whenever
\* its signature was changed; with the timestamp or the nonce changed it is
\* rejected exactly when the sorted concatenation has changed, and with the
\* two exchanged it is accepted again.
C23_TrueIffHashMatches ==
  verify.verified =>
    /\ verify.result <=> HashMatches(verify.wechatToken, verify.query)
    /\ verify.reply = IF verify.result THEN Echostr ELSE "error"
    /\ ResentVerified({"signature"}) => ~verify.result
    /\ ResentVerified({"swap"}) => verify.result
    /\ ResentVerified({"timestamp", "nonce"}) =>
         (verify.result <=>
            SortedConcatenations(verify.wechatToken, verify.query)
              = SortedConcatenations(verify.wechatToken, verify.accepted))

\* An accepted query whose nonce sorts before the token came again with
\* another nonce and was rejected.
C23_Witness ==
  /\ ResentVerified({"nonce"}) /\ ~verify.result
  /\ verify.reply = "error"
  /\ StringLess(verify.accepted.nonce, verify.wechatToken)
  /\ StringLess(verify.wechatToken, verify.accepted.timestamp)

----------------------------------------------------------------------------
(* Properties of the generated signature *)

\* The call of slot p has just generated its signature record.
Generated(p) == proc[p].pc = "sig_exist"

\* The four values of a signature record serialised with the keys in
\* lexicographic order.
FourTupleString(rec) ==
  <<<<"jsapi_ticket", rec.jsapi_ticket>>, <<"noncestr", rec.nonceStr>>,
    <<"timestamp", rec.timestamp>>, <<"url", rec.url>>>>

\* The signature generated again from the fields of rec, for another access
\* token argument.
RegeneratedWith(rec, accessToken) ==
  GenerateBy(impl, rec.url, [rec EXCEPT !.accessToken = accessToken],
             rec.nonceStr, rec.timestamp * 1000).signature

\* C24: the signature of a generated record is the hash of its ticket,
\* nonceStr, timestamp and normalized url serialised with the keys in
\* lexicographic order and of nothing else, and it is the same whatever the
\* access token argument.
C24_FourTupleHashed ==
  \A p \in Procs :
    Generated(p) =>
      LET rec == proc[p].sig IN
      /\ rec.signature = genSHA1(FourTupleString(rec))
      /\ \A accessToken \in 0..3 :
           RegeneratedWith(rec, accessToken) = rec.signature

\* C24 for the class of part_002 alone.
C24_FourTupleHashedJs == impl = "js" => C24_FourTupleHashed

\* C24, the part that holds in both classes: the signature does not depend
\* on the access token argument, and the same ticket, nonceStr, timestamp and
\* url give the same signature.
C24_AccessTokenNotHashed ==
  \A p \in Procs :
    Generated(p) =>
      LET rec == proc[p].sig IN
      /\ \A accessToken \in 0..3 :
           RegeneratedWith(rec, accessToken) = rec.signature
      /\ \A i \in 1..Len(rec.signature.sha1) :
           rec.signature.sha1[i][1] = "accesstoken" =>
             rec.signature.sha1[i][2] = EmptyString

----------------------------------------------------------------------------
(* Properties of both classes *)

\* The requests each call of the OAuth class has sent, by endpoint.
OAuthSentOnce ==
  /\ oauth.call.nExchange <= 1
  /\ oauth.call.nRefresh <= 1
  /\ oauth.call.nProfile <= 1

\* C25 as stated: within one call each upstream endpoint is requested at
\* most once.
C25_EachEndpointOnce ==
  /\ \A p \in Procs : proc[p].nTok <= 1 /\ proc[p].nTick <= 1
  /\ OAuthSentOnce

\* The pcs at which a call of the JSSDK class waits for upstream or holds an
\* answer of upstream it is about to write.
FetchPcs == {"tok_wait", "tick_wait", "tick2_wait", "gt_write", "gt_write2"}

\* C25 as amended: no request is sent again after it has failed, and every
\* failure of upstream ends the call with that failure and without a value.
\* A call sends at most one access token request, one code exchange, one
\* refresh and one profile request, and at most one ticket request, except
\* that getGlobalTokenAndTicket sends a second ticket request, with the token
\* just prepared, after a prepare step that fetched token and ticket itself.
C25_NoRetry ==
  /\ \A p \in Procs :
       LET pr == proc[p] IN
       /\ pr.nTok <= 1
       /\ pr.nTick <= (IF pr.op = "getGlobalTokenAndTicket" THEN 2 ELSE 1)
       /\ pr.nTick = 2 => pr.nTok = 1 /\ pr.tokOk /\ pr.nWrite >= 1
       /\ pr.err # "" => pr.pc = "done" /\ ~Exists(pr.result)
       /\ (pr.nTok = 1 /\ pr.pc # "tok_wait" /\ ~pr.tokOk) =>
            pr.err = "token" /\ pr.nTick = 0 /\ pr.nWrite = 0
       /\ (pr.nTick >= 1 /\ pr.pc \notin FetchPcs /\ pr.nWrite < pr.nTick) =>
            pr.err = "ticket"
  /\ LET c == oauth.call IN
     /\ OAuthSentOnce
     /\ c.nExchange + c.nRefresh <= 1
     /\ c.err # "" => c.pc = "done" /\ ~Exists(c.result)
     /\ (c.nExchange = 1 /\ c.pc \notin {"exchange_wait", "save_wait"}
           /\ c.nWrite = 0) =>
          c.err = "exchange" /\ c.nProfile = 0
     /\ (c.nRefresh = 1 /\ c.pc \notin {"refresh_wait", "update_wait"}
           /\ c.nWrite = 0) =>
          c.err = "refresh" /\ c.nProfile = 0
     /\ (c.nProfile = 1 /\ c.pc # "profile_wait") =>
          /\ c.pc = "done"
          /\ c.err = "profile" \/ (c.err = "" /\ Exists(c.result))

\* The second ticket request of a getGlobalTokenAndTicket failed and the call
\* was rejected with that failure.
C25_Witness ==
  \E p \in Procs :
    /\ Done(p, "getGlobalTokenAndTicket")
    /\ proc[p].nTick = 2 /\ proc[p].nTok = 1
    /\ proc[p].err = "ticket"

----------------------------------------------------------------------------
(* Properties of the stored global token record *)

\* The call of slot p is about to write the global token record.
Writing(p) == proc[p].pc \in {"gt_write", "gt_write2"}

\* The access token and the ticket of a record belong together.
ConsistentPair(rec) ==
  /\ Field(rec, "accessToken") # 0
  /\ Field(rec, "jsapi_ticket") = TicketOf(rec.accessToken)

\* C26: the stored global token record holds an access token and the ticket
\* upstream issued for it, and every write of the record carries a token and
\* a ticket that the writing call has fetched itself, stamped during that
\* call: no write puts a new modifyDate on a token of an earlier fetch.
C26_ConsistentPairStored ==
  /\ Exists(globalToken) =>
       ConsistentPair(globalToken) /\ "modifyDate" \in DOMAIN globalToken
  /\ \A p \in Procs :
       Writing(p) =>
         /\ ConsistentPair(proc[p].info)
         /\ proc[p].info.modifyDate >= proc[p].t0
         /\ proc[p].tokOk
         /\ proc[p].info.accessToken = proc[p].tickFor

\* C26 for the class of part_002 alone.
C26_ConsistentPairStoredJs == impl = "js" => C26_ConsistentPairStored

----------------------------------------------------------------------------
(* Properties of the age of a served ticket *)

\* The getSignature of slot p has been answered from the cache.
ServedCached(p) == Done(p, "getSignature") /\ proc[p].path = "cache"

\* The time between the fetch of the global token record whose ticket the
\* signature served to slot p was computed from, and the serving.
TicketAge(p) == proc[p].seenAt - hist.ticketAt[proc[p].url]

\* C27: with one call at a time, whenever getSignature serves a signature
\* from the cache, the ticket the signature was computed from was fetched less
\* than two hours before.
C27_ServedTicketFresh ==
  \A p \in Procs : ServedCached(p) => TicketAge(p) < TokenLifetime

----------------------------------------------------------------------------
(* Properties of the refresh counter *)

\* The prepare of slot p has found the record absent or expired and has
\* started the automatic refresh.
AutoRefreshed(p) ==
  proc[p].op = "prepareGlobalToken" /\ proc[p].path = "+refresh"

\* The step is the interval timer clearing the counter.
TimerReset == refreshedTimes' = 0 /\ nextClear' = nextClear + ClearCountInterval

\* C28: where the counter exists, it is the number of manual refreshes
\* requested since the timer last fired, the rejected ones included, whatever
\* automatic refreshes were made; an automatic refresh is never rejected by
\* the rate limit and has sent its access token request; and no step but the
\* timer's lowers the counter: a step of a prepare leaves it as it is and a
\* manual refresh that is rejected has incremented it.
C28_AutoRefreshUncounted ==
  /\ [](/\ impl = "js" => refreshedTimes = hist.manual
        /\ \A p \in Procs :
             /\ proc[p].op = "prepareGlobalToken" => proc[p].err # "ratelimit"
             /\ AutoRefreshed(p) => proc[p].nTok = 1
             /\ proc[p].err = "ratelimit" =>
                  /\ proc[p].op = "getNewTokenAndTicket"
                  /\ proc[p].seq > MaxRefreshedTimes)
  /\ [][/\ refreshedTimes' >= refreshedTimes \/ TimerReset
        /\ \A p \in Procs :
             /\ (proc'[p].op = "prepareGlobalToken" /\ proc'[p] # proc[p]) =>
                  refreshedTimes' = refreshedTimes
             /\ (proc[p].pc = "idle" /\ proc'[p].err = "ratelimit") =>
                  refreshedTimes' = refreshedTimes + 1]_vars

\* An automatic refresh went upstream and stored its pair while the counter
\* stood above the cap.
C28_Witness ==
  \E p \in Procs :
    /\ impl = "js"
    /\ AutoRefreshed(p) /\ Done(p, "prepareGlobalToken") /\ proc[p].err = ""
    /\ proc[p].nWrite = 1
    /\ refreshedTimes > MaxRefreshedTimes

====
